---- MODULE Spec2Model ----
(***************************************************************************)
(* Heat_Pump_Model.py as a state machine.  The script is straight-line     *)
(* code around three loops; pc is the source line about to be executed.    *)
(* Real numbers are exact rationals [n, d].  The external solver is an     *)
(* environment: each nw.solve call ends converged, failed (the call        *)
(* returns and only logs) or raised (an exception ends the script), and    *)
(* the component results it leaves behind are opaque per-call values.      *)
(***************************************************************************)
EXTENDS Integers, Sequences, FiniteSets, TLC

\* ------------------------------------------------------------------------
\* Exact rational arithmetic for the script's floating point values
\* ------------------------------------------------------------------------
RECURSIVE GCD(_, _)
GCD(a, b) == IF b = 0 THEN a ELSE GCD(b, a % b)

AbsInt(x) == IF x < 0 THEN -x ELSE x

Rat(n, d) ==
    LET g == GCD(AbsInt(n), AbsInt(d))
        s == IF d < 0 THEN -1 ELSE 1
    IN  [n |-> s * (n \div g), d |-> s * (d \div g)]

R(n) == [n |-> n, d |-> 1]

RAdd(a, b) == Rat(a.n * b.d + b.n * a.d, a.d * b.d)

RSub(a, b) == Rat(a.n * b.d - b.n * a.d, a.d * b.d)

RMul(a, b) ==
    LET g1 == GCD(AbsInt(a.n), b.d)
        g2 == GCD(AbsInt(b.n), a.d)
    IN  Rat((a.n \div g1) * (b.n \div g2), (a.d \div g2) * (b.d \div g1))

RNeg(a) == [n |-> -a.n, d |-> a.d]

\* float -> int conversion of numpy's astype(int): truncation toward zero
AsInt(a) == IF a.n >= 0 THEN a.n \div a.d ELSE -((-a.n) \div a.d)

\* np.linspace(start, stop, num): num evenly spaced samples, both ends included
Linspace(start, stop, num) ==
    [j \in 1..num |->
        IF num = 1 THEN start
        ELSE RAdd(start, RMul(Rat(j - 1, num - 1), RSub(stop, start)))]

\* ------------------------------------------------------------------------
\* Inputs (script lines 9-27)
\* ------------------------------------------------------------------------
T_src_in == R(40)
T_src_out == R(10)
T_snk_in == R(40)
T_snk_out == R(90)
eta_comp == Rat(85, 100)
Q_snk == R(-1012000)
p_amb == R(1)
p_sink == R(1)
x_g == R(1)
pr_cd1 == R(1)
pr_ev1 == R(1)
pr_cd2 == R(1)
pr_ev2 == R(1)
dt == 100
wf == "Water"

\* number of points of the two off-design sweeps (third linspace argument)
NT == 11
NQ == 11

\* largest number of rows of the two dataset sheets
MaxRows == 3

\* ------------------------------------------------------------------------
\* Topology (script lines 45-73)
\* ------------------------------------------------------------------------
\* ports of the component classes instantiated by the script
PortsOf(kind) ==
    CASE kind = "Compressor"    -> {"in1", "out1"}
      [] kind = "HeatExchanger" -> {"in1", "in2", "out1", "out2"}
      [] kind = "Condenser"     -> {"in1", "in2", "out1", "out2"}
      [] kind = "Valve"         -> {"in1", "out1"}
      [] kind = "CycleCloser"   -> {"in1", "out1"}
      [] kind = "Source"        -> {"out1"}
      [] kind = "Sink"          -> {"in1"}

Components ==
    [cp |-> "Compressor", ev |-> "HeatExchanger", cd |-> "Condenser",
     va |-> "Valve", cc |-> "CycleCloser",
     so1 |-> "Source", si1 |-> "Sink", so2 |-> "Source", si2 |-> "Sink"]

Ports == {<<c, p>> : c \in DOMAIN Components, p \in {"in1", "in2", "out1", "out2"}}
           \cap UNION {{<<c, p>> : p \in PortsOf(Components[c])} : c \in DOMAIN Components}

Conn(s, sp, t, tp) == [src |-> <<s, sp>>, dst |-> <<t, tp>>]

Connections_mut ==
    [c0  |-> Conn("va", "out1", "cc", "in1"),
     c1  |-> Conn("cc", "out1", "ev", "in2"),
     c2  |-> Conn("ev", "out2", "cp", "in1"),
     c3  |-> Conn("cp", "out1", "cd", "in1"),
     c4  |-> Conn("cd", "out1", "va", "in1"),
     c11 |-> Conn("so1", "out1", "ev", "in1"),
     c12 |-> Conn("ev", "out1", "si1", "in1"),
     c21 |-> Conn("so2", "out1", "cd", "in2"),
     c22 |-> Conn("cd", "out1", "si2", "in1")]

Connections ==
    [c0  |-> Conn("va", "out1", "cc", "in1"),
     c1  |-> Conn("cc", "out1", "ev", "in2"),
     c2  |-> Conn("ev", "out2", "cp", "in1"),
     c3  |-> Conn("cp", "out1", "cd", "in1"),
     c4  |-> Conn("cd", "out1", "va", "in1"),
     c11 |-> Conn("so1", "out1", "ev", "in1"),
     c12 |-> Conn("ev", "out1", "si1", "in1"),
     c21 |-> Conn("so2", "out1", "cd", "in2"),
     c22 |-> Conn("cd", "out2", "si2", "in1")]

\* ------------------------------------------------------------------------
\* Specification layer: attribute -> <<>> (None, solver-free) or <<value>>
\* ------------------------------------------------------------------------
ConnAttrs == {"c2.T", "c2.x", "c4.T", "c11.p", "c11.T", "c12.T",
              "c21.p", "c21.T", "c22.T"}
FluidAttrs == {"c2.fluid", "c11.fluid", "c21.fluid"}
CompAttrs == {"cp.eta_s", "cd.Q", "cd.pr1", "cd.pr2", "cd.ttd_u",
              "ev.pr1", "ev.pr2", "ev.ttd_u"}
Attrs == ConnAttrs \cup FluidAttrs \cup CompAttrs

None == <<>>
Fix(v) == <<v>>
IsSet(v) == v # None

\* Ref(c11, 1, -2): target = factor * reference + delta
Ref(conn, factor, delta) == [ref |-> conn, factor |-> factor, delta |-> delta]
Fluid(name) == [fluid |-> name, fraction |-> 1]

\* obj.set_attr(**kwargs): assigns the named attributes, leaves the others
SetAttr(s, kw) == [a \in Attrs |-> IF a \in DOMAIN kw THEN kw[a] ELSE s[a]]

FixedSet(s) == {a \in Attrs : IsSet(s[a])}

\* ------------------------------------------------------------------------
\* Statements of the design condition block (script lines 80-99)
\* ------------------------------------------------------------------------
DesignLines == <<80, 81, 82, 83, 87, 88, 89, 90, 91, 92, 93, 96, 97, 98, 99>>

DesignStmt(line) ==
    CASE line = 80 -> ("c2.T" :> Fix(T_src_out))
      [] line = 81 -> ("c4.T" :> Fix(T_snk_out))
      [] line = 82 -> ("cp.eta_s" :> Fix(eta_comp))
      [] line = 83 -> ("cd.Q" :> Fix(Q_snk))
      [] line = 87 -> ("c2.fluid" :> Fix(Fluid(wf)) @@ "c2.x" :> Fix(x_g))
      [] line = 88 -> ("c11.fluid" :> Fix(Fluid("air")) @@ "c11.p" :> Fix(p_amb)
                        @@ "c11.T" :> Fix(T_src_in))
      [] line = 89 -> ("c12.T" :> Fix(Ref("c11", 1, -2)))
      [] line = 90 -> ("c21.fluid" :> Fix(Fluid("Water")) @@ "c21.p" :> Fix(p_sink)
                        @@ "c21.T" :> Fix(T_snk_in))
      [] line = 91 -> ("c22.T" :> Fix(T_snk_out))
      [] line = 92 -> ("cd.pr1" :> Fix(pr_cd1) @@ "cd.pr2" :> Fix(pr_cd2))
      [] line = 93 -> ("ev.pr1" :> Fix(pr_ev1) @@ "ev.pr2" :> Fix(pr_ev2))
      [] line = 96 -> ("ev.ttd_u" :> Fix(R(5)))
      [] line = 97 -> ("c2.T" :> None)
      [] line = 98 -> ("cd.ttd_u" :> Fix(R(5)))
      [] line = 99 -> ("c4.T" :> None)

\* the line executed after `line` in a block, `after` when the block ends
NextLine(lines, line, after) ==
    LET j == CHOOSE n \in 1..Len(lines) : lines[n] = line
    IN  IF j = Len(lines) THEN after ELSE lines[j + 1]

\* ------------------------------------------------------------------------
\* Recorded metrics: a reading of a component result left by solve call n
\* ------------------------------------------------------------------------
Reading(attr, n, absval, scale) ==
    [attr |-> attr, solve |-> n, abs |-> absval, scale |-> scale]

\* x * 1e-3
Milli == Rat(1, 1000)

\* abs(series) as applied when plotting
AbsSeries(s) == [j \in 1..Len(s) |-> [s[j] EXCEPT !.abs = TRUE]]

\* ------------------------------------------------------------------------
\* Off-design sweep ranges (script lines 124-125 and 163)
\* ------------------------------------------------------------------------
TRangeOf_mut == Linspace(RSub(T_src_in, R(5)), RAdd(T_src_in, R(5)), NT)

TRangeOf == Linspace(RSub(T_src_in, R(5)), T_src_in, NT)

QRangeOf ==
    LET f == Linspace(Rat(1, 1000), R(1), NQ)
    IN  [j \in 1..NQ |-> RMul(f[j], Q_snk)]

Done == 297
Aborted == 0

VARIABLES pc, i, conns, nw, spec, files, saves, nsolve, call, status,
          Outputs_des, T_range, Q_range, time, rowidx, data,
          COP, P_comp, Q_ev, Q_cd, plotted,
          prevSpec, designSpec, anyFailed

vars == <<pc, i, conns, nw, spec, files, saves, nsolve, call, status,
          Outputs_des, T_range, Q_range, time, rowidx, data,
          COP, P_comp, Q_ev, Q_cd, plotted,
          prevSpec, designSpec, anyFailed>>

series == <<COP, P_comp, Q_ev, Q_cd>>
ranges == <<T_range, Q_range, time, rowidx, data>>
ghosts == <<prevSpec, designSpec, anyFailed>>
solver == <<nsolve, call, status>>

NoCall == [mode |-> "", design_path |-> "", reads |-> {}, phase |-> 0]

Init ==
    /\ pc = 58
    /\ i = 0
    /\ conns = <<>>
    /\ nw = {}
    /\ spec = [a \in Attrs |-> None]
    /\ files = {}
    /\ saves = 0
    /\ nsolve = 0
    /\ call = NoCall
    /\ status = ""
    /\ Outputs_des = <<>>
    /\ T_range = <<>>
    /\ Q_range = <<>>
    /\ time = <<>>
    /\ rowidx = <<>>
    /\ data = <<>>
    /\ COP = <<>>
    /\ P_comp = <<>>
    /\ Q_ev = <<>>
    /\ Q_cd = <<>>
    /\ plotted = <<>>
    /\ prevSpec = [a \in Attrs |-> None]
    /\ designSpec = [a \in Attrs |-> None]
    /\ anyFailed = FALSE

\* lines 58-69: the nine Connection objects
BuildConnections ==
    /\ pc = 58
    /\ conns' = Connections
    /\ pc' = 72
    /\ UNCHANGED <<i, nw, spec, files, saves, solver, Outputs_des, ranges,
                   series, plotted, ghosts>>

\* line 72: nw.add_conns(c0, c1, c2, c3, c4)
AddConns1 ==
    /\ pc = 72
    /\ nw' = nw \cup {"c0", "c1", "c2", "c3", "c4"}
    /\ pc' = 73
    /\ UNCHANGED <<i, conns, spec, files, saves, solver, Outputs_des, ranges,
                   series, plotted, ghosts>>

\* line 73: nw.add_conns(c11, c12, c21, c22)
AddConns2 ==
    /\ pc = 73
    /\ nw' = nw \cup {"c11", "c12", "c21", "c22"}
    /\ pc' = 80
    /\ UNCHANGED <<i, conns, spec, files, saves, solver, Outputs_des, ranges,
                   series, plotted, ghosts>>

\* lines 80-99: one set_attr statement per step
DesignSpecStep ==
    /\ \E n \in 1..Len(DesignLines) : DesignLines[n] = pc
    /\ spec' = SetAttr(spec, DesignStmt(pc))
    /\ pc' = NextLine(DesignLines, pc, 102)
    /\ UNCHANGED <<i, conns, nw, files, saves, solver, Outputs_des, ranges,
                   series, plotted, ghosts>>

\* nw.solve(mode, design_path=...): the call reads the design snapshot only
\* in offdesign mode; it leaves the specification set as it is
SolveCall(mode, design_path, phase, next) ==
    \E outcome \in {"converged", "failed", "raised"} :
        /\ (mode = "offdesign" /\ design_path \notin files) => outcome = "raised"
        /\ nsolve' = nsolve + 1
        /\ call' = [mode |-> mode, design_path |-> design_path,
                    reads |-> IF mode = "offdesign" THEN {design_path} \cap files
                              ELSE {},
                    phase |-> phase]
        /\ status' = outcome
        /\ pc' = IF outcome = "raised" THEN Aborted ELSE next
        /\ prevSpec' = spec
        /\ designSpec' = IF nsolve = 0 THEN spec ELSE designSpec
        /\ anyFailed' = (anyFailed \/ outcome = "failed")

\* line 102: nw.solve("design")
DesignSolve ==
    /\ pc = 102
    /\ SolveCall("design", "", 1, 104)
    /\ UNCHANGED <<i, conns, nw, spec, files, saves, Outputs_des, ranges,
                   series, plotted>>

SaveDesign_mut ==
    /\ pc = 104
    /\ pc' = 107
    /\ UNCHANGED <<i, conns, nw, spec, files, saves, solver, Outputs_des, ranges,
                   series, plotted, ghosts>>

\* line 104: nw.save("design-state")
SaveDesign ==
    /\ pc = 104
    /\ files' = files \cup {"design-state"}
    /\ saves' = saves + 1
    /\ pc' = 107
    /\ UNCHANGED <<i, conns, nw, spec, solver, Outputs_des, ranges,
                   series, plotted, ghosts>>

\* lines 107-113: the design metrics, collected in Outputs_des
DesignOutputs ==
    /\ pc = 107
    /\ Outputs_des' =
          <<[num |-> Reading("cd.Q", nsolve, TRUE, R(1)),
             den |-> Reading("cp.P", nsolve, FALSE, R(1))],
            Reading("cp.P", nsolve, FALSE, Milli),
            Reading("ev.Q", nsolve, TRUE, Milli),
            Reading("cd.Q", nsolve, TRUE, Milli)>>
    /\ pc' = 124
    /\ UNCHANGED <<i, conns, nw, spec, files, saves, solver, ranges,
                   series, plotted, ghosts>>

\* ------------------------------------------------------------------------
\* Influence of heat source temperature (script lines 124-158)
\* ------------------------------------------------------------------------
\* lines 124-129
TSweepInit ==
    /\ pc = 124
    /\ T_range' = TRangeOf
    /\ COP' = <<>> /\ P_comp' = <<>> /\ Q_ev' = <<>> /\ Q_cd' = <<>>
    /\ i' = 1
    /\ pc' = 132
    /\ UNCHANGED <<conns, nw, spec, files, saves, solver, Outputs_des,
                   Q_range, time, rowidx, data, plotted, ghosts>>

TSweepStmt_mut(j) == ("c21.T" :> Fix(T_range[j]))

\* line 132: c11.set_attr(T=i), i the j-th element of T_range
TSweepStmt(j) == ("c11.T" :> Fix(T_range[j]))

TSweepSet ==
    /\ pc = 132
    /\ spec' = SetAttr(spec, TSweepStmt(i))
    /\ pc' = 133
    /\ UNCHANGED <<i, conns, nw, files, saves, solver, Outputs_des, ranges,
                   series, plotted, ghosts>>

TSweepSolve_mut ==
    /\ pc = 133
    /\ SolveCall("design", "", 2, 135)
    /\ UNCHANGED <<i, conns, nw, spec, files, saves, Outputs_des, ranges,
                   series, plotted>>

\* line 133: nw.solve("offdesign", design_path="design-state")
TSweepSolve ==
    /\ pc = 133
    /\ SolveCall("offdesign", "design-state", 2, 135)
    /\ UNCHANGED <<i, conns, nw, spec, files, saves, Outputs_des, ranges,
                   series, plotted>>

\* lines 135-138 and 173-176: np.append of the four readings
OffDesignRecord(lines, body, after) ==
    /\ COP' = Append(COP, [num |-> Reading("cd.Q", nsolve, TRUE, R(1)),
                           den |-> Reading("cp.P", nsolve, FALSE, R(1))])
    /\ P_comp' = Append(P_comp, Reading("cp.P", nsolve, FALSE, Milli))
    /\ Q_ev' = Append(Q_ev, Reading("ev.Q", nsolve, FALSE, Milli))
    /\ Q_cd' = Append(Q_cd, Reading("cd.Q", nsolve, FALSE, Milli))
    /\ i' = i + 1
    /\ pc' = IF i < lines THEN body ELSE after

TSweepRecord ==
    /\ pc = 135
    /\ OffDesignRecord(Len(T_range), 132, 141)
    /\ UNCHANGED <<conns, nw, spec, files, saves, solver, Outputs_des, ranges,
                   plotted, ghosts>>

\* ax[j].plot(x, y): x and y must have the same length
PlotCall(x, after) ==
    IF Len(x) = Len(COP) /\ Len(x) = Len(P_comp)
       /\ Len(x) = Len(Q_ev) /\ Len(x) = Len(Q_cd)
    THEN /\ plotted' = [x |-> x, COP |-> COP, P_comp |-> P_comp,
                        Q_ev |-> AbsSeries(Q_ev), Q_cd |-> AbsSeries(Q_cd)]
         /\ pc' = after
    ELSE /\ plotted' = plotted
         /\ pc' = Aborted

\* lines 141-158
TSweepPlot ==
    /\ pc = 141
    /\ PlotCall(T_range, 163)
    /\ UNCHANGED <<i, conns, nw, spec, files, saves, solver, Outputs_des, ranges,
                   series, ghosts>>

\* ------------------------------------------------------------------------
\* Influence of thermal load (script lines 163-196)
\* ------------------------------------------------------------------------
\* lines 163-167
QSweepInit ==
    /\ pc = 163
    /\ Q_range' = QRangeOf
    /\ COP' = <<>> /\ P_comp' = <<>> /\ Q_ev' = <<>> /\ Q_cd' = <<>>
    /\ i' = 1
    /\ pc' = 170
    /\ UNCHANGED <<conns, nw, spec, files, saves, solver, Outputs_des,
                   T_range, time, rowidx, data, plotted, ghosts>>

QSweepStmt_mut(j) ==
    IF status = "failed" THEN ("cd.Q" :> spec["cd.Q"]) ELSE ("cd.Q" :> Fix(Q_range[j]))

\* line 170: cd.set_attr(Q=i), i the j-th element of Q_range
QSweepStmt(j) == ("cd.Q" :> Fix(Q_range[j]))

QSweepSet ==
    /\ pc = 170
    /\ spec' = SetAttr(spec, QSweepStmt(i))
    /\ pc' = 171
    /\ UNCHANGED <<i, conns, nw, files, saves, solver, Outputs_des, ranges,
                   series, plotted, ghosts>>

\* line 171: nw.solve("offdesign", design_path="design-state")
QSweepSolve ==
    /\ pc = 171
    /\ SolveCall("offdesign", "design-state", 3, 173)
    /\ UNCHANGED <<i, conns, nw, spec, files, saves, Outputs_des, ranges,
                   series, plotted>>

QSweepRecord ==
    /\ pc = 173
    /\ OffDesignRecord(Len(Q_range), 170, 179)
    /\ UNCHANGED <<conns, nw, spec, files, saves, solver, Outputs_des, ranges,
                   plotted, ghosts>>

\* np.abs(Q_range)
AbsRange(q) == [j \in 1..Len(q) |-> [n |-> AbsInt(q[j].n), d |-> q[j].d]]

\* lines 179-196
QSweepPlot ==
    /\ pc = 179
    /\ PlotCall(AbsRange(Q_range), 209)
    /\ UNCHANGED <<i, conns, nw, spec, files, saves, solver, Outputs_des, ranges,
                   series, ghosts>>

\* ------------------------------------------------------------------------
\* Dataset (script lines 205-282)
\* ------------------------------------------------------------------------
\* the two sheets: ns heat-source rows and nk heat-sink rows; v = 0 gives
\* identical rows, v = 1 rows that differ in every column
Dataset(ns, nk, v) ==
    [temp_in_src  |-> [r \in 1..ns |-> R(30 + v * r)],
     temp_out_src |-> [r \in 1..ns |-> R(5 + v * r)],
     p_src        |-> [r \in 1..ns |-> R(1 + v * r)],
     m_src        |-> [r \in 1..ns |-> R(10 + v * r)],
     temp_in_snk  |-> [r \in 1..nk |-> R(40 + v * r)],
     temp_out_snk |-> [r \in 1..nk |-> R(80 + v * r)],
     p_snk        |-> [r \in 1..nk |-> R(1 + v * r)],
     e_snk        |-> [r \in 1..nk |-> R(500 + 100 * v * r)]]

\* lines 209-222: pd.read_excel of both sheets, columns to lists
ReadExcel ==
    /\ pc = 209
    /\ \E ns \in 0..MaxRows, nk \in 0..MaxRows, v \in {0, 1} :
          data' = Dataset(ns, nk, v)
    /\ pc' = 224
    /\ UNCHANGED <<i, conns, nw, spec, files, saves, solver, Outputs_des,
                   T_range, Q_range, time, rowidx, series, plotted, ghosts>>

\* the row indices of the loop at line 231
RowIndices(n) ==
    LET x == Linspace(R(0), R(n - 1), dt)
    IN  [j \in 1..dt |-> AsInt(x[j])]

\* the time axis of line 229
TimeAxis(n) == Linspace(R(1), R(n + 1), dt)

\* lines 224-231
TSInit ==
    /\ pc = 224
    /\ COP' = <<>> /\ P_comp' = <<>> /\ Q_ev' = <<>> /\ Q_cd' = <<>>
    /\ time' = TimeAxis(Len(data.temp_in_src))
    /\ rowidx' = RowIndices(Len(data.temp_in_src))
    /\ i' = 1
    /\ pc' = 233
    /\ UNCHANGED <<conns, nw, spec, files, saves, solver, Outputs_des,
                   T_range, Q_range, data, plotted, ghosts>>

\* list[r] of Python: r counts from 0, a negative r counts from the end
InRange(list, r) == -Len(list) <= r /\ r < Len(list)
Item(list, r) == IF r >= 0 THEN list[r + 1] ELSE list[Len(list) + r + 1]

TSLines == <<233, 234, 235, 236, 240, 241, 242, 243, 244, 245, 246,
             249, 250, 251, 252>>

\* the lists a statement of the loop body indexes
TSLists(line) ==
    CASE line = 233 -> {data.temp_out_src}
      [] line = 234 -> {data.temp_out_snk}
      [] line = 236 -> {data.e_snk}
      [] line = 241 -> {data.p_src, data.temp_in_src}
      [] line = 243 -> {data.p_snk, data.temp_in_snk}
      [] line = 244 -> {data.temp_out_snk}
      [] OTHER -> {}

TSStmt252_mut == ("cd.ttd_u" :> Fix(R(5)))

\* line 252: c4.set_attr(T=None)
TSStmt252 == ("c4.T" :> None)

TSStmt(line, r) ==
    CASE line = 233 -> ("c2.T" :> Fix(Item(data.temp_out_src, r)))
      [] line = 234 -> ("c4.T" :> Fix(Item(data.temp_out_snk, r)))
      [] line = 235 -> ("cp.eta_s" :> Fix(eta_comp))
      [] line = 236 -> ("cd.Q" :> Fix(RMul(RNeg(Item(data.e_snk, r)), R(1000))))
      [] line = 240 -> ("c2.fluid" :> Fix(Fluid(wf)) @@ "c2.x" :> Fix(x_g))
      [] line = 241 -> ("c11.fluid" :> Fix(Fluid("air"))
                        @@ "c11.p" :> Fix(Item(data.p_src, r))
                        @@ "c11.T" :> Fix(Item(data.temp_in_src, r)))
      [] line = 242 -> ("c12.T" :> Fix(Ref("c11", 1, -2)))
      [] line = 243 -> ("c21.fluid" :> Fix(Fluid("Water"))
                        @@ "c21.p" :> Fix(Item(data.p_snk, r))
                        @@ "c21.T" :> Fix(Item(data.temp_in_snk, r)))
      [] line = 244 -> ("c22.T" :> Fix(Item(data.temp_out_snk, r)))
      [] line = 245 -> ("cd.pr1" :> Fix(pr_cd1) @@ "cd.pr2" :> Fix(pr_cd2))
      [] line = 246 -> ("ev.pr1" :> Fix(pr_ev1) @@ "ev.pr2" :> Fix(pr_ev2))
      [] line = 249 -> ("ev.ttd_u" :> Fix(R(5)))
      [] line = 250 -> ("c2.T" :> None)
      [] line = 251 -> ("cd.ttd_u" :> Fix(R(5)))
      [] line = 252 -> TSStmt252

\* lines 233-252: one statement per step; an index outside a list raises
TSSpecStep ==
    /\ \E n \in 1..Len(TSLines) : TSLines[n] = pc
    /\ IF \A l \in TSLists(pc) : InRange(l, rowidx[i])
       THEN /\ spec' = SetAttr(spec, TSStmt(pc, rowidx[i]))
            /\ pc' = NextLine(TSLines, pc, 255)
       ELSE /\ spec' = spec
            /\ pc' = Aborted
    /\ UNCHANGED <<i, conns, nw, files, saves, solver, Outputs_des, ranges,
                   series, plotted, ghosts>>

\* line 255: nw.solve("design")
TSSolve ==
    /\ pc = 255
    /\ SolveCall("design", "", 4, 258)
    /\ UNCHANGED <<i, conns, nw, spec, files, saves, Outputs_des, ranges,
                   series, plotted>>

\* lines 258-261
TSRecord ==
    /\ pc = 258
    /\ COP' = Append(COP, [num |-> Reading("cd.Q", nsolve, TRUE, R(1)),
                           den |-> Reading("cp.P", nsolve, FALSE, R(1))])
    /\ P_comp' = Append(P_comp, Reading("cp.P", nsolve, FALSE, Milli))
    /\ Q_ev' = Append(Q_ev, Reading("ev.Q", nsolve, TRUE, Milli))
    /\ Q_cd' = Append(Q_cd, Reading("cd.Q", nsolve, TRUE, Milli))
    /\ i' = i + 1
    /\ pc' = IF i < Len(rowidx) THEN 233 ELSE 265
    /\ UNCHANGED <<conns, nw, spec, files, saves, solver, Outputs_des, ranges,
                   plotted, ghosts>>

\* lines 265-282
TSPlot ==
    /\ pc = 265
    /\ PlotCall(time, Done)
    /\ UNCHANGED <<i, conns, nw, spec, files, saves, solver, Outputs_des, ranges,
                   series, ghosts>>

\* ------------------------------------------------------------------------
\* Properties
\* ------------------------------------------------------------------------
SolveLines == {102, 133, 171, 255}
AtSolve == pc \in SolveLines

\* the connections of the network that use a port
PortUse(p) == {c \in nw : conns[c].src = p \/ conns[c].dst = p}

\* C1: at the first and every later solve call the network holds the nine
\* connections and every port of every component is an end of exactly one
\* of them
C1_PortsBoundOnce ==
    (AtSolve \/ nsolve > 0) =>
        /\ Cardinality(nw) = 9
        /\ \A c \in nw : conns[c].src \in Ports /\ conns[c].dst \in Ports
        /\ \A p \in Ports : Cardinality(PortUse(p)) = 1

C1_Witness == pc = 255 /\ nsolve > 1 /\ Cardinality(Ports) = 18

\* C2: the design snapshot is written exactly once, after the initial design
\* solve and before any off-design solve; every off-design solve reads it and
\* nothing writes it again
C2_SnapshotWrittenOnce ==
    /\ saves <= 1
    /\ (saves = 1 => nsolve >= 1 /\ "design-state" \in files)
    /\ (nsolve >= 2 \/ pc \in {133, 171} => saves = 1)
    /\ (call.mode = "offdesign" => call.reads = {"design-state"})
    /\ (call.phase \in {2, 3} => call.mode = "offdesign")
    /\ (pc = Done => saves = 1)

C2_Witness == pc = Done /\ saves = 1 /\ nsolve = 1 + NT + NQ + dt

\* C3 as stated: every solve after the first design solve reads the snapshot
C3_EverySolveReads == nsolve >= 2 => call.reads = {"design-state"}

\* C3 amended: every off-design sweep solve reads the snapshot, and the
\* solves of the time-series branch run in design mode and read nothing
C3_OffDesignReads ==
    nsolve >= 2 =>
        /\ (call.phase \in {2, 3} =>
               call.mode = "offdesign" /\ call.reads = {"design-state"})
        /\ (call.phase = 4 => call.mode = "design" /\ call.reads = {})

C3_Witness == call.phase = 4 /\ status = "converged" /\ pc = 258 /\ i = dt

\* the attributes on which two specification sets differ
Diff(s, t) == {a \in Attrs : s[a] # t[a]}

PhaseLine(ph) == CASE ph = 2 -> 133 [] ph = 3 -> 171 [] ph = 4 -> 255

Swept(ph) ==
    CASE ph = 2 -> {"c11.T"}
      [] ph = 3 -> {"cd.Q"}
      [] ph = 4 -> {"c11.p", "c11.T", "c21.p", "c21.T", "c22.T", "cd.Q"}

\* C4: between two consecutive solve calls of one sweep only the swept
\* attributes differ
C4_OnlySweptChanges ==
    \A ph \in {2, 3, 4} :
        (pc = PhaseLine(ph) /\ call.phase = ph) =>
            Diff(prevSpec, spec) \subseteq Swept(ph)

C4_Witness == pc = 255 /\ call.phase = 4 /\ Diff(prevSpec, spec) = Swept(4)

\* C5: at every solve call the fixed attributes are those of the initial
\* design solve: T is unset on connections 2 and 4, ttd_u is set on the
\* evaporator and the condenser, 7 connection and 8 component parameters
C5_SquareAtSolve ==
    AtSolve =>
        /\ (nsolve >= 1 => FixedSet(spec) = FixedSet(designSpec))
        /\ ~IsSet(spec["c2.T"]) /\ ~IsSet(spec["c4.T"])
        /\ IsSet(spec["ev.ttd_u"]) /\ IsSet(spec["cd.ttd_u"])
        /\ Cardinality(FixedSet(spec) \cap ConnAttrs) = 7
        /\ Cardinality(FixedSet(spec) \cap CompAttrs) = 8

C5_Witness == pc = 255 /\ i > 1 /\ FixedSet(spec) = FixedSet(designSpec)

\* the over-specified state between setting ttd_u and un-fixing T exists
C5_OverSpecifiedBetween ==
    pc = 252 /\ IsSet(spec["cd.ttd_u"]) /\ IsSet(spec["c4.T"])

\* the specification set of the design case, written out
DesignCase ==
    [a \in Attrs |->
        CASE a = "c2.T" -> None
          [] a = "c4.T" -> None
          [] a = "c2.x" -> <<R(1)>>
          [] a = "c2.fluid" -> <<[fluid |-> "Water", fraction |-> 1]>>
          [] a = "c11.fluid" -> <<[fluid |-> "air", fraction |-> 1]>>
          [] a = "c11.p" -> <<R(1)>>
          [] a = "c11.T" -> <<R(40)>>
          [] a = "c12.T" -> <<[ref |-> "c11", factor |-> 1, delta |-> -2]>>
          [] a = "c21.fluid" -> <<[fluid |-> "Water", fraction |-> 1]>>
          [] a = "c21.p" -> <<R(1)>>
          [] a = "c21.T" -> <<R(40)>>
          [] a = "c22.T" -> <<R(90)>>
          [] a = "cp.eta_s" -> <<[n |-> 17, d |-> 20]>>
          [] a = "cd.Q" -> <<R(-1012000)>>
          [] a = "cd.ttd_u" -> <<R(5)>>
          [] a = "ev.ttd_u" -> <<R(5)>>
          [] OTHER -> <<R(1)>>]

\* the row of the k-th point of the time series (k from 1), rows from 1
RowOf(k) == ((k - 1) * (Len(data.temp_in_src) - 1)) \div (dt - 1) + 1

\* the specification set of point k of a sweep, from the inputs alone
PointCase(ph, k) ==
    CASE ph = 1 -> DesignCase
      [] ph = 2 -> [DesignCase EXCEPT
                        !["c11.T"] = <<Rat(70 + (k - 1), 2)>>]
      [] ph = 3 -> [DesignCase EXCEPT
                        !["cd.Q"] = <<Rat(-506 * (10 + 999 * (k - 1)), 5)>>]
      [] ph = 4 -> [DesignCase EXCEPT
                        !["c11.p"] = <<data.p_src[RowOf(k)]>>,
                        !["c11.T"] = <<data.temp_in_src[RowOf(k)]>>,
                        !["c21.p"] = <<data.p_snk[RowOf(k)]>>,
                        !["c21.T"] = <<data.temp_in_snk[RowOf(k)]>>,
                        !["c22.T"] = <<data.temp_out_snk[RowOf(k)]>>,
                        !["cd.Q"] = <<R(-1000 * data.e_snk[RowOf(k)].n)>>]

\* C6: the specification in force at the k-th solve call of a sweep is a
\* function of the constants and the inputs up to point k, whether or not
\* an earlier solve failed
C6_SpecFromInputsOnly ==
    /\ (pc = 102 => spec = PointCase(1, 1))
    /\ \A ph \in {2, 3, 4} : (pc = PhaseLine(ph) => spec = PointCase(ph, i))

C6_Witness == pc = 171 /\ i > 1 /\ status = "failed" /\ anyFailed

\* C7: an entry is appended to the output series only for a solve that
\* ended converged
C7_RecordedOnlyIfConverged ==
    [][Len(COP') > Len(COP) => status = "converged"]_vars

\* the sign a recorded duty takes when the component value has sign v
SignOf(e, v) == IF e.abs THEN AbsInt(v) * e.scale.n ELSE v * e.scale.n

IsDutyKW(e, attr) ==
    /\ e.attr = attr /\ e.abs /\ e.scale = [n |-> 1, d |-> 1000]
    /\ \A v \in {-1, 0, 1} : SignOf(e, v) >= 0

IsCOP(e) ==
    /\ e.num.attr = "cd.Q" /\ e.num.abs /\ e.num.scale = R(1)
    /\ e.den.attr = "cp.P" /\ ~e.den.abs /\ e.den.scale = R(1)
    /\ e.num.solve = e.den.solve

IsPowerKW(e) == e.attr = "cp.P" /\ ~e.abs /\ e.scale = [n |-> 1, d |-> 1000]

\* C8: every recorded COP is |cd.Q| / cp.P, every recorded power is cp.P in
\* kW and every recorded duty is the absolute value of the component duty in
\* kW, hence non-negative for either sign of the component duty
C8_RecordedMetrics ==
    /\ (Outputs_des # <<>> =>
           /\ IsCOP(Outputs_des[1]) /\ IsPowerKW(Outputs_des[2])
           /\ IsDutyKW(Outputs_des[3], "ev.Q") /\ IsDutyKW(Outputs_des[4], "cd.Q"))
    /\ \A k \in 1..Len(COP) : IsCOP(COP[k])
    /\ \A k \in 1..Len(P_comp) : IsPowerKW(P_comp[k])
    /\ \A k \in 1..Len(Q_ev) : IsDutyKW(Q_ev[k], "ev.Q")
    /\ \A k \in 1..Len(Q_cd) : IsDutyKW(Q_cd[k], "cd.Q")

\* C9: at every solve call of the thermal-load sweep c11.T is T_src_in and
\* every specification but cd.Q has its design value; after the last
\* iteration the specification set is the design one again
C9_LoadSweepAtDesign ==
    /\ (pc = 171 =>
           /\ spec["c11.T"] = <<T_src_in>>
           /\ Diff(designSpec, spec) \subseteq {"cd.Q"})
    /\ (pc \in {179, 209, 224} => spec = designSpec)

C9_Witness == pc = 179 /\ Len(Q_cd) = NQ /\ spec["cd.Q"] = <<Q_snk>>

\* C10: the series have one entry per solve and the length of the x axis,
\* the k-th x value is the input of the k-th solve; in the time series every
\* row index lies in 0..N-1 and the k-th time is that of the row used
C10_IndexedBySweepVariable ==
    /\ (pc = 141 => Len(COP) = NT /\ Len(T_range) = NT)
    /\ (pc = 179 => Len(COP) = NQ /\ Len(Q_range) = NQ)
    /\ (pc = 265 => Len(COP) = dt /\ Len(time) = dt)
    /\ (pc \in {133, 135} => Len(COP) = i - 1 /\ spec["c11.T"] = <<T_range[i]>>)
    /\ (pc \in {171, 173} => Len(COP) = i - 1 /\ spec["cd.Q"] = <<Q_range[i]>>)
    /\ (pc \in {255, 258} =>
           /\ Len(COP) = i - 1
           /\ rowidx[i] \in 0..(Len(data.temp_in_src) - 1)
           /\ time[i] = R(rowidx[i] + 1))

Next ==
    \/ BuildConnections
    \/ AddConns1
    \/ AddConns2
    \/ DesignSpecStep
    \/ DesignSolve
    \/ SaveDesign
    \/ DesignOutputs
    \/ TSweepInit
    \/ TSweepSet
    \/ TSweepSolve
    \/ TSweepRecord
    \/ TSweepPlot
    \/ QSweepInit
    \/ QSweepSet
    \/ QSweepSolve
    \/ QSweepRecord
    \/ QSweepPlot
    \/ ReadExcel
    \/ TSInit
    \/ TSSpecStep
    \/ TSSolve
    \/ TSRecord
    \/ TSPlot

Spec == Init /\ [][Next]_vars

====
